---- MODULE Spec2Model ----
(***************************************************************************)
(* Model of FronteggOAuthClient (src/src/frontegg-oauth-client.ts): the    *)
(* token state, the cached profile, the in-flight guard of getUserData and *)
(* the four provider calls, under the event-loop interleavings of one      *)
(* instance.                                                               *)
(***************************************************************************)
EXTENDS Integers, Sequences, FiniteSets, TLC

----------------------------------------------------------------------------
(* Bounds of the model *)

\* calls (of getUserData, fetchAccessTokenByOAuthCode,
\* fetchAccessTokenByOAuthRefreshToken and getOAuthLoginUrl) awaiting their
\* result at one time
MaxInFlight == 2
\* hours by which the clock advances
MaxTicks == 1

----------------------------------------------------------------------------
(* Values *)

\* null of a string field
Null == "null"
\* undefined of an optional string property
Undefined == "undefined"
\* null of tokenExpirationTime
NullTime == -1
\* null of userDataPromise
NoPromise == 0
\* the safety margin of isTokenExpired, 60 * 60 * 1000
HourMs == 60 * 60 * 1000

baseUrl == "http://frontegg-test-instance.local"
redirectUri == "http://localhost:3000/oauth/callback"
clientId == "test-client-id"
logoutRedirectUri == "http://localhost:3000"
SilentUrl == baseUrl \o "/frontegg/oauth/authorize/silent"
TokenUrl == baseUrl \o "/frontegg/oauth/token"
ProfileUrl == baseUrl \o "/frontegg/identity/resources/users/v2/me"

defaultMessage == "Error while fetching Frontegg endpoint."

\* userData = null
NoUserData ==
    [externalUserId |-> Null, accessToken |-> Null, name |-> Null, email |-> Null,
     profilePictureUrl |-> Null, externalWorkspaceId |-> Null]

\* the session a constructor may restore
RestoredUserData ==
    [externalUserId |-> "u0", accessToken |-> "a0", name |-> "n0", email |-> "e0",
     profilePictureUrl |-> Null, externalWorkspaceId |-> "w0"]

\* JSON objects a provider may send
TokenResponses ==
    { [token_type |-> "Bearer", access_token |-> "a1", id_token |-> "i1",
       refresh_token |-> "r1", expires_in |-> 0],
      [token_type |-> "Bearer", access_token |-> "a2", id_token |-> "i2",
       refresh_token |-> "r2", expires_in |-> 7200] }

ProfileResponses ==
    { [id |-> "u1", email |-> "e1", name |-> "n1", profilePictureUrl |-> "pic1",
       tenantId |-> "w1"] }

InvalidObjects == { [error |-> "bad"] }

\* objects the token schema rejects that hold the name of a token field, as a
\* property (with secrets as values) or inside a value
IncompleteTokenObjects ==
    { [token_type |-> "Bearer", access_token |-> "s1", refresh_token |-> "s1r",
       expires_in |-> 3600],
      [token_type |-> "Bearer", access_token |-> "s2", refresh_token |-> "s2r",
       expires_in |-> 3600],
      [error |-> "access_token"] }

EmptyBody == [kind |-> "empty", raw |-> ""]
TextBody == [kind |-> "text", raw |-> "Unauthorized"]
JsonBody(v) == [kind |-> "json", raw |-> "{...}", value |-> v]


\* what a fetch can yield: a rejection (no response), or a response
NetworkError == [kind |-> "networkError"]
HttpResponse(s, t, b) == [kind |-> "http", status |-> s, traceId |-> t, body |-> b]

\* the outcomes a request may have: no response, a 401 response with an empty
\* body or with a text, a 2xx response whose body is not JSON, is JSON of
\* another shape, or is one of the objects the endpoint is there to send
FailureResponses ==
    { NetworkError,
      HttpResponse(401, Null, EmptyBody),
      HttpResponse(401, "trace-1", TextBody),
      HttpResponse(200, Null, TextBody) }
        \cup {HttpResponse(200, "trace-1", JsonBody(v)) : v \in InvalidObjects}

\* what the silent-cookie request may yield
SilentEndpointResponses ==
    FailureResponses
        \cup {HttpResponse(200, "trace-1", JsonBody(v)) : v \in IncompleteTokenObjects}
        \cup {HttpResponse(200, "trace-1", JsonBody(v)) : v \in TokenResponses}

\* what a request to the token endpoint may yield
TokenEndpointResponses ==
    FailureResponses
        \cup {HttpResponse(200, "trace-1", JsonBody(v)) :
                v \in {w \in IncompleteTokenObjects : "id_token" \notin DOMAIN w
                                                        /\ "expires_in" \in DOMAIN w
                                                        /\ w.access_token = "s1"}}
        \cup {HttpResponse(200, "trace-1", JsonBody(v)) : v \in TokenResponses}

ProfileEndpointResponses ==
    FailureResponses \cup {HttpResponse(200, "trace-1", JsonBody(v)) : v \in ProfileResponses}

\* settlement of a promise
Pending == [status |-> "pending"]
FulfilledProfile(u) == [status |-> "fulfilled", profile |-> u]
FulfilledToken(t) == [status |-> "fulfilled", token |-> t]
Rejected(e) == [status |-> "rejected", error |-> e]

\* errors
FailedToFetch == [name |-> "TypeError", message |-> "Failed to fetch"]
SyntaxError == [name |-> "SyntaxError"]
ZodError == [name |-> "ZodError"]

FronteggError(text, status, url, fronteggTraceId, body) ==
    [name |-> "FronteggError", text |-> text, status |-> status, url |-> url,
     fronteggTraceId |-> fronteggTraceId, body |-> body]

StringBody(s) == [kind |-> "string", text |-> s]

----------------------------------------------------------------------------
(* Pure functions *)

\* !x of a string | null
Falsy(s) == s = Null \/ s = ""

\* response.ok
Ok(response) == response.status >= 200 /\ response.status <= 299

\* a faulty conversion: the lifetime in seconds is added as milliseconds
calculateTokenExpirationTimeInSeconds(expiresInSeconds, dateNow) ==
    dateNow + expiresInSeconds

calculateTokenExpirationTime(expiresInSeconds, dateNow) ==
    dateNow + expiresInSeconds * 1000

\* a faulty isTokenExpired: the token counts as expired at its expiration time
isTokenExpiredWithoutMargin(tokenExpirationTime, dateNow) ==
    IF tokenExpirationTime = NullTime \/ tokenExpirationTime = 0
    THEN TRUE
    ELSE tokenExpirationTime < dateNow

isTokenExpired(tokenExpirationTime, dateNow) ==
    IF tokenExpirationTime = NullTime \/ tokenExpirationTime = 0
    THEN TRUE
    ELSE tokenExpirationTime - HourMs < dateNow

\* a faulty schema: id_token is not required
TokenSchemaValidLoose(v) ==
    {"token_type", "access_token", "refresh_token", "expires_in"} \subseteq DOMAIN v

\* GET_FRONTEGG_TOKEN_RESPONSE_SCHEMA.parse succeeds
TokenSchemaValid(v) ==
    {"token_type", "access_token", "id_token", "refresh_token", "expires_in"}
        \subseteq DOMAIN v

\* GET_FRONTEGG_USER_DATA_RESPONSE_SCHEMA.parse succeeds
UserDataSchemaValid(v) ==
    {"id", "email", "name", "tenantId"} \subseteq DOMAIN v

\* a faulty search: the key is looked for in the values only
StringifyIncludesValuesOnly(v, key) ==
    \E f \in DOMAIN v \ {"expires_in"} : v[f] = key

\* JSON.stringify(json).includes(key): the key is a property name or a string value
StringifyIncludes(v, key) ==
    \/ key \in DOMAIN v
    \/ \E f \in DOMAIN v \ {"expires_in"} : v[f] = key

\* the characters the serializer of URLSearchParams leaves as they are
UrlEncodedSafe ==
    { "a", "b", "c", "d", "e", "f", "g", "h", "i", "j", "k", "l", "m", "n", "o", "p", "q",
      "r", "s", "t", "u", "v", "w", "x", "y", "z",
      "A", "B", "C", "D", "E", "F", "G", "H", "I", "J", "K", "L", "M", "N", "O", "P", "Q",
      "R", "S", "T", "U", "V", "W", "X", "Y", "Z",
      "0", "1", "2", "3", "4", "5", "6", "7", "8", "9", "*", "-", ".", "_" }

\* one character as the serializer of URLSearchParams writes it
UrlEncodedChar(c) ==
    IF c \in UrlEncodedSafe THEN c
    ELSE CASE c = " " -> "+"
           [] c = ":" -> "%3A"
           [] c = "/" -> "%2F"
           [] c = "?" -> "%3F"
           [] c = "=" -> "%3D"
           [] c = "&" -> "%26"
           [] c = "#" -> "%23"
           [] c = "%" -> "%25"
           [] c = "+" -> "%2B"

\* url.searchParams.set(name, value) as url.toString() writes the value
RECURSIVE UrlEncoded(_)
UrlEncoded(value) ==
    IF value = "" THEN ""
    ELSE UrlEncodedChar(SubSeq(value, 1, 1)) \o UrlEncoded(SubSeq(value, 2, Len(value)))

\* a faulty getOAuthLogoutUrl: the redirect is appended as it is
getOAuthLogoutUrlUnencoded ==
    baseUrl \o "/frontegg/oauth/logout" \o "?post_logout_redirect_uri=" \o logoutRedirectUri

\* getOAuthLogoutUrl: the URL of the logout page with the redirect as its query
getOAuthLogoutUrl ==
    baseUrl \o "/frontegg/oauth/logout" \o "?post_logout_redirect_uri="
        \o UrlEncoded(logoutRedirectUri)

\* crypto.subtle.digest('SHA-256', ...) of the strings createRandomString
\* returns in the model, as bytes
Sha256Digest(text) ==
    CASE text = "v1" ->
            <<59, 252, 38, 149, 148, 239, 100, 146, 40, 233, 167, 75, 171, 0, 240, 66,
              239, 201, 29, 90, 204, 111, 190, 227, 26, 56, 46, 128, 212, 35, 136, 254>>
      [] text = "v2" ->
            <<251, 4, 220, 182, 151, 14, 76, 61, 24, 115, 222, 81, 253, 90, 80, 215,
              187, 70, 179, 56, 49, 19, 96, 38, 101, 195, 80, 236, 64, 181, 249, 144>>

Base64Alphabet == "ABCDEFGHIJKLMNOPQRSTUVWXYZabcdefghijklmnopqrstuvwxyz0123456789+/"

Base64Char(k) == SubSeq(Base64Alphabet, k + 1, k + 1)

\* btoa(String.fromCharCode(...bytes)): three bytes make four characters, and
\* the last group is padded with =
RECURSIVE Btoa(_)
Btoa(bytes) ==
    IF Len(bytes) = 0 THEN ""
    ELSE IF Len(bytes) = 1
    THEN LET n == bytes[1] * 16
         IN  Base64Char(n \div 64) \o Base64Char(n % 64) \o "=="
    ELSE IF Len(bytes) = 2
    THEN LET n == (bytes[1] * 256 + bytes[2]) * 4
         IN  Base64Char(n \div 4096) \o Base64Char((n \div 64) % 64)
                \o Base64Char(n % 64) \o "="
    ELSE LET n == bytes[1] * 65536 + bytes[2] * 256 + bytes[3]
         IN  Base64Char(n \div 262144) \o Base64Char((n \div 4096) % 64)
                \o Base64Char((n \div 64) % 64) \o Base64Char(n % 64)
                \o Btoa(SubSeq(bytes, 4, Len(bytes)))

\* a faulty replacement: the padding is removed, + and / are kept
RECURSIVE ReplacePaddingOnly(_)
ReplacePaddingOnly(text) ==
    IF text = "" THEN ""
    ELSE (IF SubSeq(text, 1, 1) = "=" THEN "" ELSE SubSeq(text, 1, 1))
            \o ReplacePaddingOnly(SubSeq(text, 2, Len(text)))

\* .replace(/=/g, '').replace(/\+/g, '-').replace(/\//g, '_')
RECURSIVE ReplaceForUrl(_)
ReplaceForUrl(text) ==
    IF text = "" THEN ""
    ELSE LET c == SubSeq(text, 1, 1)
         IN  (IF c = "=" THEN "" ELSE IF c = "+" THEN "-" ELSE IF c = "/" THEN "_" ELSE c)
                \o ReplaceForUrl(SubSeq(text, 2, Len(text)))

\* getOAuthLoginUrl from the verifier to the URL it returns
getOAuthLoginUrl(codeVerifier, nonce) ==
    LET hashedVerifier == ReplaceForUrl(Btoa(Sha256Digest(codeVerifier)))
    IN  [origin |-> baseUrl,
         pathname |-> "/frontegg/oauth/authorize",
         searchParams |->
            [client_id |-> clientId,
             redirect_uri |-> redirectUri,
             response_type |-> "code",
             scope |-> "openid profile email",
             code_challenge |-> hashedVerifier,
             code_challenge_method |-> "S256",
             nonce |-> nonce]]

\* the request of each provider call
NoReq == [kind |-> "none"]

SilentReq ==
    [kind |-> "silent", url |-> SilentUrl, method |-> "POST", credentials |-> "include"]

CodeReq(oauthCode, codeVerifier) ==
    [kind |-> "code", url |-> TokenUrl, method |-> "POST", code |-> oauthCode,
     redirect_uri |-> redirectUri, code_verifier |-> codeVerifier,
     grant_type |-> "authorization_code"]

RefreshReq(token) ==
    [kind |-> "refresh", url |-> TokenUrl, method |-> "POST", refresh_token |-> token,
     grant_type |-> "refresh_token"]

ProfileReq(userAccessToken) ==
    [kind |-> "profile", url |-> ProfileUrl, method |-> "GET", credentials |-> "include",
     authorization |-> "Bearer " \o userAccessToken]

\* fetchWithAssert throws: fetch rejected, or the response is not ok
FetchWithAssertThrows(response) ==
    response.kind = "networkError" \/ ~Ok(response)

\* a faulty error: the trace id is passed on as read, null when the header is absent
FetchWithAssertErrorNullTrace(url, response) ==
    IF response.kind = "networkError"
    THEN FailedToFetch
    ELSE FronteggError(
            IF response.body.raw = "" THEN defaultMessage ELSE response.body.raw,
            response.status,
            url,
            response.traceId,
            StringBody(defaultMessage))

\* a faulty error: a rejected fetch is wrapped in a FronteggError
FetchWithAssertErrorWrapped(url, response) ==
    FronteggError(
        IF response.kind = "networkError" \/ response.body.raw = ""
        THEN defaultMessage ELSE response.body.raw,
        IF response.kind = "networkError" THEN 0 ELSE response.status,
        url,
        IF response.kind = "networkError" \/ response.traceId = Null
        THEN "undefined" ELSE response.traceId,
        StringBody(defaultMessage))

\* what fetchWithAssert throws. response.text() reads the body; response.json()
\* after it finds the body used (or empty) and rejects, so body is the default.
FetchWithAssertError(url, response) ==
    IF response.kind = "networkError"
    THEN FailedToFetch
    ELSE FronteggError(
            IF response.body.raw = "" THEN defaultMessage ELSE response.body.raw,
            response.status,
            url,
            IF response.traceId = Null THEN "undefined" ELSE response.traceId,
            StringBody(defaultMessage))

\* await response.json() followed by GET_FRONTEGG_TOKEN_RESPONSE_SCHEMA.parse(json)
ParseTokenResponse(response) ==
    IF response.body.kind # "json" THEN [ok |-> FALSE, error |-> SyntaxError]
    ELSE IF ~TokenSchemaValid(response.body.value) THEN [ok |-> FALSE, error |-> ZodError]
    ELSE [ok |-> TRUE, data |-> response.body.value]

\* the error fetchAccessTokenByCookie builds when the schema rejects the body
CookieParseError(response) ==
    LET json == response.body.value
        includeResponseBody ==
            ~ \E key \in {"access_token", "id_token", "refresh_token"} :
                StringifyIncludes(json, key)
    IN  FronteggError(
            "Error while parsing Frontegg response.",
            500,
            SilentUrl,
            IF response.traceId = Null THEN "undefined" ELSE response.traceId,
            [kind |-> "object",
             response |-> IF includeResponseBody
                          THEN JsonBody(json)
                          ELSE StringBody("Response body contains sensitive information."),
             error |-> ZodError])

\* fetchAccessTokenByCookie up to its assignments
CookieExchange(response) ==
    IF FetchWithAssertThrows(response)
    THEN [ok |-> FALSE, error |-> FetchWithAssertError(SilentUrl, response)]
    ELSE IF response.body.kind # "json" THEN [ok |-> FALSE, error |-> SyntaxError]
    ELSE IF ~TokenSchemaValid(response.body.value)
         THEN [ok |-> FALSE, error |-> CookieParseError(response)]
    ELSE [ok |-> TRUE, data |-> response.body.value]

\* fetchAccessTokenByOAuthCode from the response up to its assignments
CodeExchange(response) ==
    IF FetchWithAssertThrows(response)
    THEN [ok |-> FALSE, error |-> FetchWithAssertError(TokenUrl, response)]
    ELSE ParseTokenResponse(response)

\* fetchAccessTokenByOAuthRefreshToken from the response up to its assignments
RefreshExchange(response) ==
    IF FetchWithAssertThrows(response)
    THEN [ok |-> FALSE, error |-> FetchWithAssertError(TokenUrl, response)]
    ELSE ParseTokenResponse(response)

\* fetchUserData from the response to its return value
UserDataExchange(userAccessToken, response) ==
    IF FetchWithAssertThrows(response)
    THEN [ok |-> FALSE, error |-> FetchWithAssertError(ProfileUrl, response)]
    ELSE IF response.body.kind # "json" THEN [ok |-> FALSE, error |-> SyntaxError]
    ELSE IF ~UserDataSchemaValid(response.body.value) THEN [ok |-> FALSE, error |-> ZodError]
    ELSE LET data == response.body.value
         IN  [ok |-> TRUE,
              profile |->
                [externalUserId |-> data.id,
                 accessToken |-> userAccessToken,
                 email |-> data.email,
                 name |-> data.name,
                 profilePictureUrl |->
                    IF "profilePictureUrl" \in DOMAIN data
                    THEN data.profilePictureUrl ELSE Undefined,
                 externalWorkspaceId |-> data.tenantId]]

----------------------------------------------------------------------------
(* State *)

VARIABLES
    userData,              \* this.userData
    accessToken,           \* this.accessToken
    refreshToken,          \* this.refreshToken
    tokenExpirationTime,   \* this.tokenExpirationTime
    userDataPromise,       \* this.userDataPromise: 0, or the operation it holds
    localStorage,          \* localStorage item LOGIN_VERIFIER_KEY
    now,                   \* Date.now()
    ops,                   \* the promise chains getUserData has built and callers still await
    tokenCalls,            \* the token calls made from outside that are in flight
    last                   \* the step just taken: the call made or the request answered,
                           \* the fields of the instance before it, what a caller got

vars ==
    <<userData, accessToken, refreshToken, tokenExpirationTime, userDataPromise,
      localStorage, now, ops, tokenCalls, last>>

tokenState == <<accessToken, refreshToken, tokenExpirationTime>>

instance == <<userData, accessToken, refreshToken, tokenExpirationTime, userDataPromise>>

\* the fields of the instance
Fields ==
    [userData |-> userData, accessToken |-> accessToken, refreshToken |-> refreshToken,
     tokenExpirationTime |-> tokenExpirationTime, userDataPromise |-> userDataPromise]

NoOp == [state |-> "free"]

OpIds == 1..MaxInFlight

\* an operation: its position, the outstanding request (req), the requests it
\* has issued (sent), the token it resolved, its settlement (outcome), the
\* callers awaiting it, what the caller that resumed before got (delivered),
\* and the fields of the instance when it started
NewOp(forceRefresh) ==
    [state |-> "token", forceRefresh |-> forceRefresh, req |-> NoReq, sent |-> <<>>,
     token |-> Null, outcome |-> Pending, waiting |-> 1, delivered |-> Pending,
     start |-> Fields]

Live == {o \in OpIds : ops[o].state # "free"}

\* the operations that have not settled
PendingOps == {o \in OpIds : ops[o].state \in {"token", "resolved", "profile"}}

RECURSIVE Waiting(_)
Waiting(S) ==
    IF S = {} THEN 0
    ELSE LET o == CHOOSE x \in S : TRUE IN ops[o].waiting + Waiting(S \ {o})

\* the smallest free identity
FreeId == CHOOSE o \in OpIds : ops[o].state = "free" /\ \A p \in 1..(o - 1) : ops[p].state # "free"

\* no continuation of a settled promise is waiting in the microtask queue. The
\* then-handler that calls fetchUserData runs, and the callers of a settled
\* operation resume, in the microtask checkpoint of the task that resolved the
\* token or settled the operation, before any response or timer is handled; a
\* call made by the same task before the checkpoint reads no field these
\* continuations write, so the model takes every other step after them
MicrotasksDone == \A o \in OpIds : ops[o].state \notin {"resolved", "settled"}

\* a step that returns nothing and handles no response (construction, the
\* start of a refresh call, the end of the delay of getCodeVerifier, the
\* clock), with the fields of the instance before it
NoStep == [step |-> "none", before |-> Fields]

\* the calls awaiting their result
InFlight == Waiting(Live) + Len(tokenCalls)

\* the requests each operation has issued
SentBy == [o \in OpIds |-> IF ops[o].state = "free" THEN <<>> ELSE ops[o].sent]

\* a call of getUserData: the operation it awaits (0: none, served from the
\* cache), the operations pending and the requests issued before it, what it
\* returned at once
CallStep(forceRefresh, o, result) ==
    [step |-> "getUserData", forceRefresh |-> forceRefresh, op |-> o,
     pending |-> PendingOps, sent |-> SentBy, result |-> result, before |-> Fields,
     now |-> now]

\* a request answered: by whom (owner, op), the request, its answer, what the
\* caller of a token call got
ResponseStep(owner, o, req, response, result) ==
    [step |-> "response", owner |-> owner, op |-> o, req |-> req, response |-> response,
     result |-> result, before |-> Fields,
     now |-> now]

\* the profile request of an operation was issued
FetchStep(o) == [step |-> "fetchUserData", op |-> o, before |-> Fields]

\* a call of getOAuthLogoutUrl: what it returned, and the operations, calls
\* and requests before it
LogoutUrlStep(result) ==
    [step |-> "getOAuthLogoutUrl", result |-> result, before |-> Fields,
     sent |-> SentBy, ops |-> ops, tokenCalls |-> tokenCalls, localStorage |-> localStorage]

\* getCodeVerifier was called by getOAuthLoginUrl or fetchAccessTokenByOAuthCode:
\* the item of the store before the call, the verifier the call will return,
\* whether the call created it
VerifierStep(caller, r) ==
    [step |-> "getCodeVerifier", caller |-> caller, stored |-> localStorage,
     verifier |-> r.verifier, created |-> r.created, before |-> Fields]

\* a call of getOAuthLoginUrl returned
LoginUrlStep(result) ==
    [step |-> "getOAuthLoginUrl", result |-> result, before |-> Fields]

\* a caller of getUserData resumed with the settlement of its operation;
\* previous is what the caller that resumed before it got
ResumeStep(o, result, previous) ==
    [step |-> "resume", op |-> o, result |-> result, previous |-> previous,
     before |-> Fields]

----------------------------------------------------------------------------
(* Construction *)

\* the optional fields of the constructor's config (an absent field is null):
\* a fresh instance, a restored session that is fresh, expired, expired
\* without a refresh token, fresh without a refresh token, and a refresh
\* token alone
Configs ==
    { [userData |-> NoUserData, refreshToken |-> Null, tokenExpirationTime |-> NullTime],
      [userData |-> RestoredUserData, refreshToken |-> "r0", tokenExpirationTime |-> 4 * HourMs],
      [userData |-> RestoredUserData, refreshToken |-> "r0", tokenExpirationTime |-> 2 * HourMs],
      [userData |-> RestoredUserData, refreshToken |-> Null, tokenExpirationTime |-> 0],
      [userData |-> RestoredUserData, refreshToken |-> Null, tokenExpirationTime |-> 4 * HourMs],
      [userData |-> NoUserData, refreshToken |-> "r0", tokenExpirationTime |-> NullTime] }

\* new FronteggOAuthClient(config) with userData?, refreshToken?, tokenExpirationTime?
Init ==
    /\ now = 2 * HourMs
    /\ \E config \in Configs :
            /\ userData = config.userData
            /\ accessToken =
                  IF config.userData # NoUserData THEN config.userData.accessToken ELSE Null
            /\ refreshToken = IF ~Falsy(config.refreshToken) THEN config.refreshToken ELSE Null
            /\ tokenExpirationTime =
                  IF config.tokenExpirationTime # NullTime /\ config.tokenExpirationTime # 0
                  THEN config.tokenExpirationTime ELSE NullTime
    /\ userDataPromise = NoPromise
    /\ localStorage = Null
    /\ ops = [o \in OpIds |-> NoOp]
    /\ tokenCalls = <<>>
    /\ last = NoStep

----------------------------------------------------------------------------
(* getUserData *)

\* a faulty getAccessToken: a held refresh token is used before the silent
\* exchange is considered
getAccessTokenRefreshFirst(op, forceRefresh) ==
    IF ~Falsy(refreshToken)
       /\ (forceRefresh \/ isTokenExpired(tokenExpirationTime, now))
    THEN [op EXCEPT !.state = "token", !.req = RefreshReq(refreshToken),
                    !.sent = Append(@, RefreshReq(refreshToken))]
    ELSE IF Falsy(accessToken)
    THEN [op EXCEPT !.state = "token", !.req = SilentReq, !.sent = Append(@, SilentReq)]
    ELSE [op EXCEPT !.state = "resolved", !.token = accessToken]

\* a faulty getAccessToken: the refresh token is used on forceRefresh only
getAccessTokenOnForceOnly(op, forceRefresh) ==
    IF Falsy(accessToken)
    THEN [op EXCEPT !.state = "token", !.req = SilentReq, !.sent = Append(@, SilentReq)]
    ELSE IF ~Falsy(refreshToken) /\ forceRefresh
    THEN [op EXCEPT !.state = "token", !.req = RefreshReq(refreshToken),
                    !.sent = Append(@, RefreshReq(refreshToken))]
    ELSE [op EXCEPT !.state = "resolved", !.token = accessToken]

\* a faulty getAccessToken: an expired token that cannot be refreshed is
\* replaced through the silent exchange
getAccessTokenSilentWhenExpired(op, forceRefresh) ==
    IF Falsy(accessToken)
    THEN [op EXCEPT !.state = "token", !.req = SilentReq, !.sent = Append(@, SilentReq)]
    ELSE IF ~Falsy(refreshToken)
            /\ (forceRefresh \/ isTokenExpired(tokenExpirationTime, now))
    THEN [op EXCEPT !.state = "token", !.req = RefreshReq(refreshToken),
                    !.sent = Append(@, RefreshReq(refreshToken))]
    ELSE IF isTokenExpired(tokenExpirationTime, now)
    THEN [op EXCEPT !.state = "token", !.req = SilentReq, !.sent = Append(@, SilentReq)]
    ELSE [op EXCEPT !.state = "resolved", !.token = accessToken]

\* a faulty getAccessToken: forceRefresh is not looked at
getAccessTokenIgnoringForce(op, forceRefresh) ==
    IF Falsy(accessToken)
    THEN [op EXCEPT !.state = "token", !.req = SilentReq, !.sent = Append(@, SilentReq)]
    ELSE IF ~Falsy(refreshToken) /\ isTokenExpired(tokenExpirationTime, now)
    THEN [op EXCEPT !.state = "token", !.req = RefreshReq(refreshToken),
                    !.sent = Append(@, RefreshReq(refreshToken))]
    ELSE [op EXCEPT !.state = "resolved", !.token = accessToken]

\* a faulty getAccessToken: a held refresh token is used whether or not the
\* token is expired
getAccessTokenRefreshWhenHeld(op, forceRefresh) ==
    IF Falsy(accessToken)
    THEN [op EXCEPT !.state = "token", !.req = SilentReq, !.sent = Append(@, SilentReq)]
    ELSE IF ~Falsy(refreshToken)
    THEN [op EXCEPT !.state = "token", !.req = RefreshReq(refreshToken),
                    !.sent = Append(@, RefreshReq(refreshToken))]
    ELSE [op EXCEPT !.state = "resolved", !.token = accessToken]

\* a faulty getAccessToken: forceRefresh with a refresh token held goes to the
\* refresh exchange before the access token is looked at
getAccessTokenForcedRefreshFirst(op, forceRefresh) ==
    IF forceRefresh /\ ~Falsy(refreshToken)
    THEN [op EXCEPT !.state = "token", !.req = RefreshReq(refreshToken),
                    !.sent = Append(@, RefreshReq(refreshToken))]
    ELSE IF Falsy(accessToken)
    THEN [op EXCEPT !.state = "token", !.req = SilentReq, !.sent = Append(@, SilentReq)]
    ELSE IF ~Falsy(refreshToken) /\ isTokenExpired(tokenExpirationTime, now)
    THEN [op EXCEPT !.state = "token", !.req = RefreshReq(refreshToken),
                    !.sent = Append(@, RefreshReq(refreshToken))]
    ELSE [op EXCEPT !.state = "resolved", !.token = accessToken]

\* getAccessToken, run synchronously inside getUserData up to its first await:
\* the operation once the token request is issued or the cached token returned
getAccessToken(op, forceRefresh) ==
    IF Falsy(accessToken)
    THEN [op EXCEPT !.state = "token", !.req = SilentReq, !.sent = Append(@, SilentReq)]
    ELSE IF ~Falsy(refreshToken)
            /\ (forceRefresh \/ isTokenExpired(tokenExpirationTime, now))
    THEN [op EXCEPT !.state = "token", !.req = RefreshReq(refreshToken),
                    !.sent = Append(@, RefreshReq(refreshToken))]
    ELSE [op EXCEPT !.state = "resolved", !.token = accessToken]

\* a faulty condition of the cached return: the sense of forceRefresh inverted
ServedFromCacheOnForce(forceRefresh) ==
    userData # NoUserData /\ ~isTokenExpired(tokenExpirationTime, now) /\ forceRefresh

\* the condition of the cached return of getUserData
ServedFromCache(forceRefresh) ==
    userData # NoUserData /\ ~isTokenExpired(tokenExpirationTime, now) /\ ~forceRefresh

\* a faulty guard: every call that is not served from the cache builds a chain
StartsOperationAlways == TRUE

\* a faulty guard: it holds a call back only once the operation has issued its
\* profile request
StartsOperationUntilProfile ==
    userDataPromise = NoPromise \/ ops[userDataPromise].state = "token"

\* the condition under which getUserData builds a new promise chain
StartsOperation == userDataPromise = NoPromise

\* a faulty getUserData: the guard is shared only by calls with the same
\* forceRefresh
GetUserDataKeyedByArgument(forceRefresh) ==
    /\ MicrotasksDone
    /\ IF ServedFromCache(forceRefresh)
       THEN /\ last' = CallStep(forceRefresh, 0, FulfilledProfile(userData))
            /\ UNCHANGED <<userDataPromise, ops>>
       ELSE /\ InFlight < MaxInFlight
            /\ IF StartsOperation \/ ops[userDataPromise].forceRefresh # forceRefresh
               THEN /\ ops' = [ops EXCEPT ![FreeId] =
                                  getAccessToken(NewOp(forceRefresh), forceRefresh)]
                    /\ userDataPromise' = FreeId
                    /\ last' = CallStep(forceRefresh, FreeId, Pending)
               ELSE /\ ops' = [ops EXCEPT ![userDataPromise].waiting = @ + 1]
                    /\ UNCHANGED userDataPromise
                    /\ last' = CallStep(forceRefresh, userDataPromise, Pending)
    /\ UNCHANGED <<userData, tokenState, localStorage, now, tokenCalls>>

\* a faulty getUserData: the guard is set only when the operation suspends on a
\* token request
GetUserDataGuardingTokenRequests(forceRefresh) ==
    /\ MicrotasksDone
    /\ IF ServedFromCache(forceRefresh)
       THEN /\ last' = CallStep(forceRefresh, 0, FulfilledProfile(userData))
            /\ UNCHANGED <<userDataPromise, ops>>
       ELSE /\ InFlight < MaxInFlight
            /\ IF StartsOperation
               THEN /\ ops' = [ops EXCEPT ![FreeId] =
                                  getAccessToken(NewOp(forceRefresh), forceRefresh)]
                    /\ userDataPromise' =
                          IF ops'[FreeId].state = "token" THEN FreeId ELSE NoPromise
                    /\ last' = CallStep(forceRefresh, FreeId, Pending)
               ELSE /\ ops' = [ops EXCEPT ![userDataPromise].waiting = @ + 1]
                    /\ UNCHANGED userDataPromise
                    /\ last' = CallStep(forceRefresh, userDataPromise, Pending)
    /\ UNCHANGED <<userData, tokenState, localStorage, now, tokenCalls>>

GetUserData(forceRefresh) ==
    /\ MicrotasksDone
    /\ IF ServedFromCache(forceRefresh)
       THEN /\ last' = CallStep(forceRefresh, 0, FulfilledProfile(userData))
            /\ UNCHANGED <<userDataPromise, ops>>
       ELSE /\ InFlight < MaxInFlight
            /\ IF StartsOperation
               THEN /\ ops' = [ops EXCEPT ![FreeId] =
                                  getAccessToken(NewOp(forceRefresh), forceRefresh)]
                    /\ userDataPromise' = FreeId
                    /\ last' = CallStep(forceRefresh, FreeId, Pending)
               ELSE /\ ops' = [ops EXCEPT ![userDataPromise].waiting = @ + 1]
                    /\ UNCHANGED userDataPromise
                    /\ last' = CallStep(forceRefresh, userDataPromise, Pending)
    /\ UNCHANGED <<userData, tokenState, localStorage, now, tokenCalls>>

\* a faulty catch handler: the held profile is dropped with the failure
OpRejectClearingProfile(o, error) ==
    /\ userDataPromise' = NoPromise
    /\ userData' = NoUserData
    /\ ops' = [ops EXCEPT ![o] = [@ EXCEPT !.state = "settled", !.req = NoReq,
                                           !.outcome = Rejected(error)]]
    /\ UNCHANGED tokenState

\* a faulty catch handler: the guard is left in place
OpRejectKeepingGuard(o, error) ==
    /\ ops' = [ops EXCEPT ![o] = [@ EXCEPT !.state = "settled", !.req = NoReq,
                                           !.outcome = Rejected(error)]]
    /\ UNCHANGED <<userData, tokenState, userDataPromise>>

\* a faulty catch handler: the request that failed first is issued once more
OpRejectRetrying(o, error) ==
    IF Len(ops[o].sent) = 1
    THEN /\ ops' = [ops EXCEPT ![o] = [@ EXCEPT !.sent = Append(@, ops[o].req)]]
         /\ UNCHANGED <<userData, tokenState, userDataPromise>>
    ELSE /\ userDataPromise' = NoPromise
         /\ ops' = [ops EXCEPT ![o] = [@ EXCEPT !.state = "settled", !.req = NoReq,
                                                !.outcome = Rejected(error)]]
         /\ UNCHANGED <<userData, tokenState>>

\* the catch handler of the promise chain of getUserData
OpReject(o, error) ==
    /\ userDataPromise' = NoPromise
    /\ ops' = [ops EXCEPT ![o] = [@ EXCEPT !.state = "settled", !.req = NoReq,
                                           !.outcome = Rejected(error)]]
    /\ UNCHANGED <<userData, tokenState>>

\* the silent-cookie request of operation o yields a response: the rest of
\* fetchAccessTokenByCookie
CookieResponse(o) ==
    /\ MicrotasksDone
    /\ ops[o].state = "token"
    /\ ops[o].req.kind = "silent"
    /\ \E response \in SilentEndpointResponses :
        /\ LET r == CookieExchange(response)
           IN  IF r.ok
               THEN /\ accessToken' = r.data.access_token
                    /\ refreshToken' = r.data.refresh_token
                    /\ tokenExpirationTime' =
                          calculateTokenExpirationTime(r.data.expires_in, now)
                    /\ ops' = [ops EXCEPT ![o] = [@ EXCEPT !.state = "resolved",
                                                           !.req = NoReq,
                                                           !.token = accessToken']]
                    /\ UNCHANGED <<userData, userDataPromise>>
               ELSE OpReject(o, r.error)
        /\ last' = ResponseStep("getUserData", o, ops[o].req, response, Pending)
        /\ UNCHANGED <<localStorage, now, tokenCalls>>

\* the refresh-token request of operation o yields a response: the rest of
\* fetchAccessTokenByOAuthRefreshToken, called by getAccessToken
RefreshResponse(o) ==
    /\ MicrotasksDone
    /\ ops[o].state = "token"
    /\ ops[o].req.kind = "refresh"
    /\ \E response \in TokenEndpointResponses :
        /\ LET r == RefreshExchange(response)
           IN  IF r.ok
               THEN /\ accessToken' = r.data.access_token
                    /\ refreshToken' = r.data.refresh_token
                    /\ tokenExpirationTime' =
                          calculateTokenExpirationTime(r.data.expires_in, now)
                    /\ ops' = [ops EXCEPT ![o] = [@ EXCEPT !.state = "resolved",
                                                           !.req = NoReq,
                                                           !.token = accessToken']]
                    /\ UNCHANGED <<userData, userDataPromise>>
               ELSE OpReject(o, r.error)
        /\ last' = ResponseStep("getUserData", o, ops[o].req, response, Pending)
        /\ UNCHANGED <<localStorage, now, tokenCalls>>

\* the first then-handler of getUserData calls fetchUserData, which issues the request
FetchUserData(o) ==
    /\ ops[o].state = "resolved"
    /\ ops' = [ops EXCEPT ![o] = [@ EXCEPT !.state = "profile",
                                           !.req = ProfileReq(ops[o].token),
                                           !.sent = Append(@, ProfileReq(ops[o].token))]]
    /\ last' = FetchStep(o)
    /\ UNCHANGED <<instance, localStorage, now, tokenCalls>>

\* a faulty fetchUserData: the profile takes the access token the instance
\* holds when the response arrives
UserDataResponseCurrentToken(o) ==
    /\ MicrotasksDone
    /\ ops[o].state = "profile"
    /\ \E response \in ProfileEndpointResponses :
        /\ LET r == UserDataExchange(accessToken, response)
           IN  IF r.ok
               THEN /\ userData' = r.profile
                    /\ userDataPromise' = NoPromise
                    /\ ops' = [ops EXCEPT ![o] = [@ EXCEPT !.state = "settled",
                                                           !.req = NoReq,
                                                           !.outcome = FulfilledProfile(userData')]]
                    /\ UNCHANGED tokenState
               ELSE OpReject(o, r.error)
        /\ last' = ResponseStep("getUserData", o, ops[o].req, response, Pending)
        /\ UNCHANGED <<localStorage, now, tokenCalls>>

\* a faulty fetchUserData: the access token of the instance is set back to the
\* bearer of the profile request
UserDataResponseStoringToken(o) ==
    /\ MicrotasksDone
    /\ ops[o].state = "profile"
    /\ \E response \in ProfileEndpointResponses :
        /\ LET r == UserDataExchange(ops[o].token, response)
           IN  IF r.ok
               THEN /\ userData' = r.profile
                    /\ userDataPromise' = NoPromise
                    /\ accessToken' = ops[o].token
                    /\ ops' = [ops EXCEPT ![o] = [@ EXCEPT !.state = "settled",
                                                           !.req = NoReq,
                                                           !.outcome = FulfilledProfile(userData')]]
                    /\ UNCHANGED <<refreshToken, tokenExpirationTime>>
               ELSE OpReject(o, r.error)
        /\ last' = ResponseStep("getUserData", o, ops[o].req, response, Pending)
        /\ UNCHANGED <<localStorage, now, tokenCalls>>

\* the profile request yields a response: the rest of fetchUserData and the
\* second then-handler (or the catch handler) of getUserData
UserDataResponse(o) ==
    /\ MicrotasksDone
    /\ ops[o].state = "profile"
    /\ \E response \in ProfileEndpointResponses :
        /\ LET r == UserDataExchange(ops[o].token, response)
           IN  IF r.ok
               THEN /\ userData' = r.profile
                    /\ userDataPromise' = NoPromise
                    /\ ops' = [ops EXCEPT ![o] = [@ EXCEPT !.state = "settled",
                                                           !.req = NoReq,
                                                           !.outcome = FulfilledProfile(userData')]]
                    /\ UNCHANGED tokenState
               ELSE OpReject(o, r.error)
        /\ last' = ResponseStep("getUserData", o, ops[o].req, response, Pending)
        /\ UNCHANGED <<localStorage, now, tokenCalls>>

\* a faulty resumption: only the first caller gets the settlement of the
\* operation, a later one gets a failure of its own
CallerResumeFirstOnly(o) ==
    /\ ops[o].state = "settled"
    /\ last' = ResumeStep(o, IF ops[o].delivered = Pending THEN ops[o].outcome
                             ELSE Rejected(FailedToFetch), ops[o].delivered)
    /\ ops' = [ops EXCEPT ![o] = IF ops[o].waiting = 1 THEN NoOp
                                 ELSE [@ EXCEPT !.waiting = @ - 1,
                                                !.delivered = ops[o].outcome]]
    /\ UNCHANGED <<instance, localStorage, now, tokenCalls>>

\* a faulty resumption: the callers of an operation that was rejected are
\* never resumed
CallerResumeOnSuccessOnly(o) ==
    /\ ops[o].state = "settled"
    /\ ops[o].outcome.status = "fulfilled"
    /\ last' = ResumeStep(o, ops[o].outcome, ops[o].delivered)
    /\ ops' = [ops EXCEPT ![o] = IF ops[o].waiting = 1 THEN NoOp
                                 ELSE [@ EXCEPT !.waiting = @ - 1,
                                                !.delivered = ops[o].outcome]]
    /\ UNCHANGED <<instance, localStorage, now, tokenCalls>>

\* a caller awaiting the promise of a settled operation gets its settlement;
\* the promise chain is dropped with its last caller
CallerResume(o) ==
    /\ ops[o].state = "settled"
    /\ last' = ResumeStep(o, ops[o].outcome, ops[o].delivered)
    /\ ops' = [ops EXCEPT ![o] = IF ops[o].waiting = 1 THEN NoOp
                                 ELSE [@ EXCEPT !.waiting = @ - 1,
                                                !.delivered = ops[o].outcome]]
    /\ UNCHANGED <<instance, localStorage, now, tokenCalls>>

----------------------------------------------------------------------------
(* fetchAccessTokenByOAuthCode, fetchAccessTokenByOAuthRefreshToken *)

OAuthCodes == {"code-1"}
RefreshArgs == {"r0"}
\* what createRandomString may return
RandomStrings == {"v2"}

Remove(seq, i) == SubSeq(seq, 1, i - 1) \o SubSeq(seq, i + 1, Len(seq))

\* the calls in flight are independent promises: the model keeps them in one
\* order, by what they wait for, whatever the order they were made in
CallRank(call) ==
    IF call.kind = "login" THEN 1
    ELSE IF call.kind = "code" /\ call.state = "verifier" THEN 2
    ELSE IF call.kind = "code" THEN 3
    ELSE 4

Insert(seq, call) ==
    LET k == Cardinality({i \in 1..Len(seq) : CallRank(seq[i]) <= CallRank(call)})
    IN  SubSeq(seq, 1, k) \o <<call>> \o SubSeq(seq, k + 1, Len(seq))

\* a faulty getCodeVerifier: a verifier is created and stored by every call
getCodeVerifierAlwaysCreating(random) ==
    [verifier |-> random, created |-> TRUE, item |-> random]

\* getCodeVerifier up to its delay, random being what createRandomString would
\* return: the verifier it is going to return, whether it created it, and the
\* item of the store when it suspends
getCodeVerifier(random) ==
    IF ~Falsy(localStorage)
    THEN [verifier |-> localStorage, created |-> FALSE, item |-> localStorage]
    ELSE [verifier |-> random, created |-> TRUE, item |-> random]

\* fetchAccessTokenByOAuthCode up to the await of getCodeVerifier: the stored
\* verifier, or a new one that is stored before the delay
FetchAccessTokenByOAuthCode(oauthCode) ==
    /\ MicrotasksDone
    /\ InFlight < MaxInFlight
    /\ \E random \in RandomStrings :
        LET r == getCodeVerifier(random)
        IN  /\ localStorage' = r.item
            /\ tokenCalls' = Insert(tokenCalls,
                  [kind |-> "code", state |-> "verifier", code |-> oauthCode,
                   verifier |-> r.verifier, req |-> NoReq])
            /\ last' = VerifierStep("code", r)
    /\ UNCHANGED <<instance, now, ops>>

\* getCodeVerifier has returned: the code request is issued
CodeRequest(i) ==
    /\ MicrotasksDone
    /\ tokenCalls[i].state = "verifier"
    /\ tokenCalls' = Insert(Remove(tokenCalls, i),
          [tokenCalls[i] EXCEPT !.state = "fetching",
                                !.req = CodeReq(tokenCalls[i].code, tokenCalls[i].verifier)])
    /\ last' = NoStep
    /\ UNCHANGED <<instance, localStorage, now, ops>>

\* the code request yields a response: the rest of fetchAccessTokenByOAuthCode
CodeResponse(i) ==
    /\ MicrotasksDone
    /\ tokenCalls[i].req.kind = "code"
    /\ \E response \in TokenEndpointResponses :
        /\ LET r == CodeExchange(response)
           IN  IF r.ok
               THEN /\ accessToken' = r.data.access_token
                    /\ refreshToken' = r.data.refresh_token
                    /\ tokenExpirationTime' =
                          calculateTokenExpirationTime(r.data.expires_in, now)
                    /\ last' = ResponseStep("code", 0, tokenCalls[i].req, response,
                                             FulfilledToken(accessToken'))
               ELSE /\ last' = ResponseStep("code", 0, tokenCalls[i].req, response,
                                             Rejected(r.error))
                    /\ UNCHANGED tokenState
        /\ tokenCalls' = Remove(tokenCalls, i)
        /\ UNCHANGED <<userData, userDataPromise, localStorage, now, ops>>

\* fetchAccessTokenByOAuthRefreshToken called from outside, up to the await of fetch
FetchAccessTokenByOAuthRefreshToken(token) ==
    /\ MicrotasksDone
    /\ InFlight < MaxInFlight
    /\ tokenCalls' = Insert(tokenCalls,
          [kind |-> "refresh", state |-> "fetching", req |-> RefreshReq(token)])
    /\ last' = NoStep
    /\ UNCHANGED <<instance, localStorage, now, ops>>

\* a faulty fetchAccessTokenByOAuthRefreshToken: the refresh token of the
\* response is not stored
RefreshCallResponseKeepingRefreshToken(i) ==
    /\ MicrotasksDone
    /\ tokenCalls[i].req.kind = "refresh"
    /\ \E response \in TokenEndpointResponses :
        /\ LET r == RefreshExchange(response)
           IN  IF r.ok
               THEN /\ accessToken' = r.data.access_token
                    /\ refreshToken' = refreshToken
                    /\ tokenExpirationTime' =
                          calculateTokenExpirationTime(r.data.expires_in, now)
                    /\ last' = ResponseStep("refresh", 0, tokenCalls[i].req, response,
                                             FulfilledToken(accessToken'))
               ELSE /\ last' = ResponseStep("refresh", 0, tokenCalls[i].req, response,
                                             Rejected(r.error))
                    /\ UNCHANGED tokenState
        /\ tokenCalls' = Remove(tokenCalls, i)
        /\ UNCHANGED <<userData, userDataPromise, localStorage, now, ops>>

\* the refresh request of a call from outside yields a response: the rest of
\* fetchAccessTokenByOAuthRefreshToken
RefreshCallResponse(i) ==
    /\ MicrotasksDone
    /\ tokenCalls[i].req.kind = "refresh"
    /\ \E response \in TokenEndpointResponses :
        /\ LET r == RefreshExchange(response)
           IN  IF r.ok
               THEN /\ accessToken' = r.data.access_token
                    /\ refreshToken' = r.data.refresh_token
                    /\ tokenExpirationTime' =
                          calculateTokenExpirationTime(r.data.expires_in, now)
                    /\ last' = ResponseStep("refresh", 0, tokenCalls[i].req, response,
                                             FulfilledToken(accessToken'))
               ELSE /\ last' = ResponseStep("refresh", 0, tokenCalls[i].req, response,
                                             Rejected(r.error))
                    /\ UNCHANGED tokenState
        /\ tokenCalls' = Remove(tokenCalls, i)
        /\ UNCHANGED <<userData, userDataPromise, localStorage, now, ops>>

----------------------------------------------------------------------------
(* getOAuthLoginUrl *)

\* getOAuthLoginUrl up to the await of getCodeVerifier: the stored verifier, or
\* a new one that is stored before the delay
GetOAuthLoginUrl ==
    /\ MicrotasksDone
    /\ InFlight < MaxInFlight
    /\ \E random \in RandomStrings :
        LET r == getCodeVerifier(random)
        IN  /\ localStorage' = r.item
            /\ tokenCalls' = Insert(tokenCalls,
                  [kind |-> "login", state |-> "login", verifier |-> r.verifier,
                   req |-> NoReq])
            /\ last' = VerifierStep("login", r)
    /\ UNCHANGED <<instance, now, ops>>

\* getCodeVerifier and the digest have returned: the rest of getOAuthLoginUrl
LoginUrlReturn(i) ==
    /\ MicrotasksDone
    /\ tokenCalls[i].kind = "login"
    /\ \E nonce \in RandomStrings :
          last' = LoginUrlStep(getOAuthLoginUrl(tokenCalls[i].verifier, nonce))
    /\ tokenCalls' = Remove(tokenCalls, i)
    /\ UNCHANGED <<instance, localStorage, now, ops>>

----------------------------------------------------------------------------
(* getOAuthLogoutUrl *)

GetOAuthLogoutUrl ==
    /\ MicrotasksDone
    /\ last' = LogoutUrlStep(getOAuthLogoutUrl)
    /\ UNCHANGED <<instance, localStorage, now, ops, tokenCalls>>

----------------------------------------------------------------------------
(* The clock *)

Tick ==
    /\ MicrotasksDone
    /\ now < (2 + MaxTicks) * HourMs
    /\ now' = now + HourMs
    /\ last' = NoStep
    /\ UNCHANGED <<instance, localStorage, ops, tokenCalls>>

----------------------------------------------------------------------------

TokenCallIds == 1..Len(tokenCalls)

Next ==
    \/ \E forceRefresh \in BOOLEAN : GetUserData(forceRefresh)
    \/ \E o \in OpIds : CookieResponse(o)
    \/ \E o \in OpIds : RefreshResponse(o)
    \/ \E o \in OpIds : FetchUserData(o)
    \/ \E o \in OpIds : UserDataResponse(o)
    \/ \E o \in OpIds : CallerResume(o)
    \/ \E oauthCode \in OAuthCodes : FetchAccessTokenByOAuthCode(oauthCode)
    \/ \E i \in TokenCallIds : CodeRequest(i)
    \/ \E i \in TokenCallIds : CodeResponse(i)
    \/ \E token \in RefreshArgs : FetchAccessTokenByOAuthRefreshToken(token)
    \/ \E i \in TokenCallIds : RefreshCallResponse(i)
    \/ GetOAuthLoginUrl
    \/ \E i \in TokenCallIds : LoginUrlReturn(i)
    \/ GetOAuthLogoutUrl
    \/ Tick

Spec == Init /\ [][Next]_vars

\* what the event loop and the provider guarantee: a continuation that is
\* ready (the rest of getAccessToken's caller, the resumption of a caller of
\* getUserData) runs, and every request that was issued is answered, by a
\* response or by a transport failure
Fairness ==
    /\ WF_vars(\E o \in OpIds : FetchUserData(o))
    /\ WF_vars(\E o \in OpIds : CallerResume(o))
    /\ WF_vars(\E o \in OpIds : CookieResponse(o))
    /\ WF_vars(\E o \in OpIds : RefreshResponse(o))
    /\ WF_vars(\E o \in OpIds : UserDataResponse(o))
    /\ WF_vars(\E i \in TokenCallIds : CodeResponse(i))
    /\ WF_vars(\E i \in TokenCallIds : RefreshCallResponse(i))

FairSpec == Init /\ [][Next]_vars /\ Fairness

TypeOK ==
    /\ userDataPromise \in {NoPromise} \cup OpIds
    /\ InFlight <= MaxInFlight

----------------------------------------------------------------------------
(* Properties *)

\* C1: at most one user-data operation is in flight per instance, and a call
\* of getUserData that is not served from the cache while an operation is
\* pending awaits that operation: no operation is added and no request issued
SingleFlight ==
    /\ Cardinality(PendingOps) <= 1
    /\ (last.step = "getUserData" /\ last.op # 0 /\ last.pending # {}) =>
          /\ last.op \in last.pending
          /\ PendingOps = last.pending
          /\ SentBy = last.sent
          /\ last.result = Pending

\* a second caller has attached to the pending operation
SingleFlightWitness ==
    /\ last.step = "getUserData"
    /\ last.op \in last.pending
    /\ ops[last.op].waiting = 2

\* C2: every caller awaiting one operation resumes with the same settlement,
\* the same failure or the same profile, and on success that profile is the
\* one the operation stored in userData
SameSettlement ==
    last.step = "resume" =>
        /\ last.result.status \in {"fulfilled", "rejected"}
        /\ (last.previous # Pending => last.result = last.previous)
        /\ (ops[last.op].state # "free" => ops[last.op].outcome = last.result)
        /\ (last.result.status = "fulfilled" => last.result.profile = userData)

\* the second caller of a fulfilled operation has resumed
SameSettlementWitness ==
    /\ last.step = "resume"
    /\ last.previous # Pending
    /\ last.result.status = "fulfilled"

\* C3: with a profile held, the token not expired and forceRefresh false,
\* getUserData returns the held profile at once, issues no request, starts no
\* operation and leaves every field as it was
CachedProfileReturned ==
    (/\ last.step = "getUserData"
     /\ ~last.forceRefresh
     /\ last.before.userData # NoUserData
     /\ last.before.tokenExpirationTime # NullTime
     /\ last.now <= last.before.tokenExpirationTime - HourMs) =>
        /\ last.result = FulfilledProfile(last.before.userData)
        /\ last.op = 0
        /\ SentBy = last.sent
        /\ PendingOps = last.pending
        /\ Fields = last.before

\* a profile fetched earlier is returned from the cache
CachedProfileReturnedWitness ==
    /\ last.step = "getUserData"
    /\ last.op = 0
    /\ last.result.profile.externalUserId = "u1"

\* a 2xx response whose body is a token response of the schema
ValidTokenResponse(response) ==
    /\ response.kind = "http"
    /\ response.status \in 200..299
    /\ response.body.kind = "json"
    /\ response.body.value \in TokenResponses

\* the step just taken handled the response to a request of this kind of a
\* user-data operation
OpResponse(kind) ==
    last.step = "response" /\ last.owner = "getUserData" /\ last.req.kind = kind

OpFailed ==
    /\ last.step = "response"
    /\ last.owner = "getUserData"
    /\ ops[last.op].outcome.status = "rejected"

\* the token state and the profile
Held == <<accessToken, refreshToken, tokenExpirationTime, userData>>

HeldIn(fields) ==
    <<fields.accessToken, fields.refreshToken, fields.tokenExpirationTime, fields.userData>>

\* C6 as stated: when a user-data operation fails, accessToken, refreshToken,
\* tokenExpirationTime and userData have the values they had when the
\* operation started (no other call having replaced the access token)
FailureLeavesStartState ==
    (OpFailed /\ accessToken \in {ops[last.op].start.accessToken, ops[last.op].token}) =>
        Held = HeldIn(ops[last.op].start)

\* C6, amended: the step in which a user-data operation fails assigns none of
\* accessToken, refreshToken, tokenExpirationTime and userData, and userData
\* is as it was when the operation started; what a successful token exchange of
\* the operation assigned before its profile fetch failed stays assigned
FailureAssignsNothing ==
    OpFailed =>
        /\ Held = HeldIn(last.before)
        /\ userData = ops[last.op].start.userData

\* the profile fetch of an operation has failed after its token exchange
\* replaced the access token held at its start
FailureAssignsNothingWitness ==
    /\ OpFailed
    /\ last.req.kind = "profile"
    /\ ops[last.op].sent[1].kind \in {"silent", "refresh"}
    /\ accessToken = ops[last.op].token
    /\ accessToken # ops[last.op].start.accessToken

\* C7: the guard holds an operation from the call that starts it, before any
\* suspension, for as long as it is pending, and is clear once the operation
\* has settled, fulfilled or rejected; a call that is not served from the
\* cache while the guard is clear starts an operation of its own, with no
\* outcome yet and requests of its own
GuardSetAndCleared ==
    /\ \A o \in PendingOps : userDataPromise = o
    /\ \A o \in Live : ops[o].state = "settled" => userDataPromise = NoPromise
    /\ userDataPromise # NoPromise => userDataPromise \in PendingOps
    /\ (/\ last.step = "getUserData"
        /\ last.op # 0
        /\ last.before.userDataPromise = NoPromise) =>
          /\ last.op \notin last.pending
          /\ last.sent[last.op] = <<>>
          /\ userDataPromise = last.op
          /\ ops[last.op].outcome = Pending
          /\ ops[last.op].delivered = Pending
          /\ ops[last.op].waiting = 1
          /\ \/ ops[last.op].state = "token" /\ Len(ops[last.op].sent) = 1
             \/ ops[last.op].state = "resolved" /\ ops[last.op].sent = <<>>

\* an operation has failed and the guard is clear
GuardSetAndClearedWitness ==
    /\ OpFailed
    /\ ops[last.op].state = "settled"
    /\ last.before.userDataPromise = last.op
    /\ userDataPromise = NoPromise

\* the step just taken handled the response to a request to the token endpoint
TokenEndpointResponse ==
    last.step = "response" /\ last.req.kind \in {"code", "refresh"}

\* what the call the response belongs to returns or throws
LastResult ==
    IF last.owner = "getUserData" THEN ops[last.op].outcome ELSE last.result

\* C8: on a 2xx response with a body of the schema, the code exchange and the
\* refresh exchange set accessToken, refreshToken and tokenExpirationTime from
\* that response, the expiration being the time of the response plus
\* expires_in * 1000, and return its access_token
TokenExchangeSetsTokenState ==
    (TokenEndpointResponse /\ ValidTokenResponse(last.response)) =>
        LET data == last.response.body.value
        IN  /\ accessToken = data.access_token
            /\ refreshToken = data.refresh_token
            /\ tokenExpirationTime = last.now + data.expires_in * 1000
            /\ IF last.owner = "getUserData"
               THEN ops[last.op].state = "resolved" /\ ops[last.op].token = data.access_token
               ELSE last.result = FulfilledToken(data.access_token)

\* a code exchange has returned the access token of a response with a lifetime
TokenExchangeSetsTokenStateWitness ==
    /\ TokenEndpointResponse
    /\ last.owner = "code"
    /\ last.result.status = "fulfilled"
    /\ last.response.body.value.expires_in > 0
    /\ last.before.accessToken # accessToken

\* C9: on a response that is not 2xx, the code exchange and the refresh
\* exchange fail with a FronteggError carrying the status of the response, the
\* url of the request, the trace id of the response or "undefined" when the
\* header is absent, and the default message as text and as body when the
\* response has no body; the token state and the profile are left as they were
NonOkTokenExchangeFails ==
    (/\ TokenEndpointResponse
     /\ last.response.kind = "http"
     /\ last.response.status \notin 200..299) =>
        /\ LastResult.status = "rejected"
        /\ LastResult.error.name = "FronteggError"
        /\ LastResult.error.status = last.response.status
        /\ LastResult.error.url = last.req.url
        /\ LastResult.error.url = TokenUrl
        /\ LastResult.error.fronteggTraceId =
              (IF last.response.traceId = Null THEN "undefined" ELSE last.response.traceId)
        /\ (last.response.body.kind = "empty" =>
              /\ LastResult.error.text = defaultMessage
              /\ LastResult.error.body = StringBody(defaultMessage))
        /\ Held = HeldIn(last.before)

\* a code exchange has failed on a 401 response with no body and no trace id
NonOkTokenExchangeFailsWitness ==
    /\ TokenEndpointResponse
    /\ last.owner = "code"
    /\ last.response.kind = "http"
    /\ last.response.status = 401
    /\ last.response.body.kind = "empty"
    /\ last.response.traceId = Null
    /\ last.result.status = "rejected"

\* C10: when the fetch of any of the four provider calls is rejected, the
\* calling operation fails with that rejection, the TypeError "Failed to fetch",
\* and never with a FronteggError; a FronteggError comes with a response
TransportFailureIsGeneric ==
    last.step = "response" =>
        /\ last.response.kind = "networkError" =>
              /\ LastResult.status = "rejected"
              /\ LastResult.error = FailedToFetch
              /\ LastResult.error.name # "FronteggError"
        /\ (LastResult.status = "rejected" /\ LastResult.error.name = "FronteggError") =>
              last.response.kind = "http"

\* the profile fetch of a user-data operation was rejected by the transport
TransportFailureIsGenericWitness ==
    /\ OpResponse("profile")
    /\ last.response.kind = "networkError"
    /\ ops[last.op].outcome.status = "rejected"

\* the step just taken handled a 2xx response whose body is JSON that the
\* schema of the request rejects
SchemaInvalidResponse ==
    /\ last.step = "response"
    /\ last.response.kind = "http"
    /\ last.response.status \in 200..299
    /\ last.response.body.kind = "json"
    /\ last.response.body.value \notin TokenResponses \cup ProfileResponses

\* C11 as stated: a 2xx response whose body fails schema validation makes
\* each of the four provider calls fail with a FronteggError
SchemaFailureIsFronteggError ==
    SchemaInvalidResponse =>
        /\ LastResult.status = "rejected"
        /\ LastResult.error.name = "FronteggError"

\* the step just taken is a call of getUserData that started an operation
StartedOperation ==
    last.step = "getUserData" /\ last.op # 0 /\ last.op \notin last.pending

\* an access token is held without a refresh token, and the token is expired
\* or has no recorded expiration, before the step just taken
ExpiredNoRefresh ==
    /\ last.before.accessToken # Null
    /\ last.before.refreshToken = Null
    /\ \/ last.before.tokenExpirationTime = NullTime
       \/ last.now >= last.before.tokenExpirationTime - HourMs

\* C12 as stated: an operation started with an access token, no refresh token
\* and the token expired issues the silent-cookie request first
ExpiredNoRefreshCallsSilent ==
    (StartedOperation /\ ExpiredNoRefresh) =>
        /\ ops[last.op].state = "token"
        /\ ops[last.op].sent = <<SilentReq>>

\* C12, amended: an operation started with an access token, no refresh token
\* and the token expired issues no token request; it resolves the held access
\* token and its only request is the profile request with that token as bearer
ExpiredNoRefreshReusesToken ==
    /\ (StartedOperation /\ ExpiredNoRefresh) =>
          /\ ops[last.op].state = "resolved"
          /\ ops[last.op].sent = <<>>
          /\ ops[last.op].token = last.before.accessToken
    /\ \A o \in Live :
          (/\ ops[o].start.accessToken # Null
           /\ ops[o].start.refreshToken = Null
           /\ ops[o].sent # <<>>) =>
              ops[o].sent = <<ProfileReq(ops[o].start.accessToken)>>

\* the profile request of an operation started on an expired token without a
\* refresh token carries the expired token
ExpiredNoRefreshReusesTokenWitness ==
    /\ last.step = "fetchUserData"
    /\ ops[last.op].start.accessToken # Null
    /\ ops[last.op].start.refreshToken = Null
    /\ ops[last.op].start.tokenExpirationTime = NullTime
    /\ ops[last.op].req = ProfileReq(ops[last.op].start.accessToken)

\* C13 as stated: an operation started by getUserData({forceRefresh: true})
\* with an access token held issues the refresh request
ForceRefreshCallsRefresh ==
    (StartedOperation /\ last.forceRefresh /\ last.before.accessToken # Null) =>
        /\ ops[last.op].state = "token"
        /\ ops[last.op].req.kind = "refresh"

\* C13, amended: an operation started by getUserData({forceRefresh: true})
\* with an access token held issues the refresh request with the held refresh
\* token when a refresh token is held, whether the token is expired or not, and
\* fetches the profile with the token of the refresh response; when no refresh
\* token is held it issues no token request and reuses the held access token
ForceRefreshNeedsRefreshToken ==
    /\ (StartedOperation /\ last.forceRefresh /\ last.before.accessToken # Null) =>
          IF last.before.refreshToken # Null
          THEN /\ ops[last.op].state = "token"
               /\ ops[last.op].sent = <<RefreshReq(last.before.refreshToken)>>
               /\ ops[last.op].token = Null
          ELSE /\ ops[last.op].state = "resolved"
               /\ ops[last.op].sent = <<>>
               /\ ops[last.op].token = last.before.accessToken
    /\ (/\ last.step = "fetchUserData"
        /\ ops[last.op].forceRefresh
        /\ ops[last.op].sent[1].kind = "refresh") =>
          /\ ops[last.op].req = ProfileReq(accessToken)
          /\ accessToken # Null

\* a forced call has started an operation on a token that is not expired and
\* issued the refresh request
ForceRefreshNeedsRefreshTokenWitness ==
    /\ StartedOperation
    /\ last.forceRefresh
    /\ last.before.refreshToken # Null
    /\ last.before.tokenExpirationTime # NullTime
    /\ last.now < last.before.tokenExpirationTime - HourMs
    /\ ops[last.op].req.kind = "refresh"

\* C14 as stated: a token is expired exactly when no expiration time is
\* recorded or now >= tokenExpirationTime - 1 hour
ExpiredFromBoundary ==
    isTokenExpired(tokenExpirationTime, now)
        <=> (tokenExpirationTime = NullTime \/ now >= tokenExpirationTime - HourMs)

\* C15: the profile an operation stores in userData has the accessToken the
\* token resolution of the operation returned, which is the bearer of its
\* profile request and the accessToken of the instance when that request was
\* issued, whatever other calls did to the token state meanwhile
ProfileTokenMatchesFetch ==
    /\ last.step = "fetchUserData" =>
          /\ ops[last.op].token = last.before.accessToken
          /\ ops[last.op].token = accessToken
          /\ ops[last.op].req = ProfileReq(ops[last.op].token)
    /\ (OpResponse("profile") /\ ops[last.op].outcome.status = "fulfilled") =>
          /\ userData = ops[last.op].outcome.profile
          /\ userData.accessToken = ops[last.op].token
          /\ last.req = ProfileReq(userData.accessToken)
          /\ ops[last.op].sent[Len(ops[last.op].sent)] = last.req

\* an operation has stored a profile after another call replaced the access
\* token of the instance
ProfileTokenMatchesFetchWitness ==
    /\ OpResponse("profile")
    /\ ops[last.op].outcome.status = "fulfilled"
    /\ userData.accessToken # accessToken

\* C16: when the silent-cookie exchange gets a 2xx response with a JSON body
\* the schema rejects, the response part of the error body is the raw response
\* if the serialized response holds none of access_token, id_token and
\* refresh_token, and otherwise the fixed marker, the same for every such
\* response whatever values it holds
SensitiveBodyRedacted ==
    (OpResponse("silent") /\ SchemaInvalidResponse) =>
        LET json == last.response.body.value
            error == ops[last.op].outcome.error
            holdsTokenField ==
                \E key \in {"access_token", "id_token", "refresh_token"} :
                    \/ key \in DOMAIN json
                    \/ \E f \in DOMAIN json \ {"expires_in"} : json[f] = key
        IN  /\ ops[last.op].outcome.status = "rejected"
            /\ error.name = "FronteggError"
            /\ error.body.response =
                  IF holdsTokenField
                  THEN StringBody("Response body contains sensitive information.")
                  ELSE last.response.body

\* a silent exchange answered with an incomplete token object has failed with
\* the marker in place of the response
SensitiveBodyRedactedWitness ==
    /\ OpResponse("silent")
    /\ SchemaInvalidResponse
    /\ "access_token" \in DOMAIN last.response.body.value
    /\ last.response.body.value.access_token = "s2"
    /\ ops[last.op].outcome.error.body.response.kind = "string"

\* the step just taken handled the response to a token request
TokenResponseStep ==
    last.step = "response" /\ last.req.kind \in {"silent", "code", "refresh"}

\* C19: a token exchange (cookie, code or refresh) whose response is not 2xx,
\* or is 2xx with a body the schema rejects, leaves accessToken, refreshToken
\* and tokenExpirationTime as they were, fails, and neither stores nor returns
\* a token of that response
InvalidResponseWritesNoToken ==
    (/\ TokenResponseStep
     /\ last.response.kind = "http"
     /\ ~ValidTokenResponse(last.response)) =>
        /\ tokenState = <<last.before.accessToken, last.before.refreshToken,
                          last.before.tokenExpirationTime>>
        /\ LastResult.status = "rejected"
        /\ (last.owner = "getUserData" =>
              /\ ops[last.op].token = Null
              /\ Len(ops[last.op].sent) = 1)
        /\ (/\ last.response.body.kind = "json"
            /\ "access_token" \in DOMAIN last.response.body.value) =>
              accessToken # last.response.body.value.access_token

\* a code exchange answered 2xx with a token object lacking id_token has failed
InvalidResponseWritesNoTokenWitness ==
    /\ TokenResponseStep
    /\ last.owner = "code"
    /\ last.response.kind = "http"
    /\ last.response.status = 200
    /\ last.response.body.kind = "json"
    /\ last.response.body.value \in IncompleteTokenObjects
    /\ "access_token" \in DOMAIN last.response.body.value
    /\ last.result.status = "rejected"

\* C20: a call getUserData({forceRefresh: true}) made while an operation
\* started without forceRefresh is pending awaits that operation, starts none
\* and issues no request of its own, and resumes with the settlement the
\* other callers of the operation get
GuardNotKeyedByArgument ==
    /\ (/\ last.step = "getUserData"
        /\ last.forceRefresh
        /\ last.pending # {}
        /\ \A o \in last.pending : ~ops[o].forceRefresh) =>
          /\ last.op \in last.pending
          /\ PendingOps = last.pending
          /\ SentBy = last.sent
          /\ ops[last.op].waiting >= 2
          /\ \A o \in Live : ~ops[o].forceRefresh
    /\ \A o \in Live : ops[o].waiting >= 1
    /\ (last.step = "resume" /\ ops[last.op].state # "free") =>
          /\ ops[last.op].state = "settled"
          /\ ops[last.op].delivered = last.result
          /\ ops[last.op].outcome = ops[last.op].delivered

\* a forced call has attached to an operation started without forceRefresh
\* while a refresh token was held
GuardNotKeyedByArgumentWitness ==
    /\ last.step = "getUserData"
    /\ last.forceRefresh
    /\ last.op \in last.pending
    /\ ~ops[last.op].forceRefresh
    /\ last.before.refreshToken # Null
    /\ last.before.accessToken # Null

\* C17 as stated: getOAuthLogoutUrl returns the base URL followed by
\* /oauth/logout?post_logout_redirect_uri= and the url-encoded redirect
LogoutUrlWithoutPrefix ==
    last.step = "getOAuthLogoutUrl" =>
        last.result = baseUrl \o "/oauth/logout?post_logout_redirect_uri="
                        \o "http%3A%2F%2Flocalhost%3A3000"

\* C17, amended: getOAuthLogoutUrl returns the base URL followed by
\* /frontegg/oauth/logout?post_logout_redirect_uri= and the url-encoded
\* redirect; it issues no request and changes no field of the instance, no
\* operation, no call in flight and not the verifier store
LogoutUrlIsPure ==
    last.step = "getOAuthLogoutUrl" =>
        /\ last.result =
              "http://frontegg-test-instance.local/frontegg/oauth/logout"
                \o "?post_logout_redirect_uri=http%3A%2F%2Flocalhost%3A3000"
        /\ Fields = last.before
        /\ SentBy = last.sent
        /\ ops = last.ops
        /\ tokenCalls = last.tokenCalls
        /\ localStorage = last.localStorage

\* getOAuthLogoutUrl was called while a user-data operation was pending
LogoutUrlIsPureWitness ==
    /\ last.step = "getOAuthLogoutUrl"
    /\ PendingOps # {}
    /\ accessToken # Null

\* the base64url SHA-256 digests of the verifiers, computed outside the model
ExpectedChallenge(verifier) ==
    CASE verifier = "v1" -> "O_wmlZTvZJIo6adLqwDwQu_JHVrMb77jGjgugNQjiP4"
      [] verifier = "v2" -> "-wTctpcOTD0Yc95R_VpQ17tGszgxE2AmZcNQ7EC1-ZA"

\* C18: getOAuthLoginUrl returns a URL whose origin is the configured base URL
\* and whose query holds the configured client_id and redirect_uri,
\* response_type code, scope "openid profile email", code_challenge_method
\* S256, a nonce, and as code_challenge the base64url SHA-256 digest of the
\* verifier the store holds
LoginUrlMatchesConfig ==
    last.step = "getOAuthLoginUrl" =>
        /\ last.result.origin = "http://frontegg-test-instance.local"
        /\ DOMAIN last.result.searchParams =
              {"client_id", "redirect_uri", "response_type", "scope", "code_challenge",
               "code_challenge_method", "nonce"}
        /\ last.result.searchParams.client_id = "test-client-id"
        /\ last.result.searchParams.redirect_uri = "http://localhost:3000/oauth/callback"
        /\ last.result.searchParams.response_type = "code"
        /\ last.result.searchParams.scope = "openid profile email"
        /\ last.result.searchParams.code_challenge_method = "S256"
        /\ last.result.searchParams.nonce \in RandomStrings
        /\ localStorage # Null
        /\ last.result.searchParams.code_challenge = ExpectedChallenge(localStorage)

\* getOAuthLoginUrl has returned a URL whose challenge needed the padding
\* removed and + and / replaced
LoginUrlMatchesConfigWitness ==
    /\ last.step = "getOAuthLoginUrl"
    /\ localStorage = "v2"
    /\ last.result.searchParams.code_challenge = "-wTctpcOTD0Yc95R_VpQ17tGszgxE2AmZcNQ7EC1-ZA"

\* C21: a call getUserData() that starts an operation while an access token is
\* held and not expired and no profile is held resolves the held token with no
\* request; the next step of the operation is its profile request with that
\* token as bearer, and an operation whose first request is the profile
\* request issues no other request
CachedTokenFetchesProfileOnly ==
    /\ (/\ StartedOperation
        /\ ~last.forceRefresh
        /\ last.before.accessToken # Null
        /\ last.before.userData = NoUserData
        /\ last.before.tokenExpirationTime # NullTime
        /\ last.now < last.before.tokenExpirationTime - HourMs) =>
          /\ ops[last.op].state = "resolved"
          /\ ops[last.op].sent = <<>>
          /\ ops[last.op].token = last.before.accessToken
          /\ SentBy = [last.sent EXCEPT ![last.op] = <<>>]
    /\ \A o \in Live : (ops[o].state = "resolved" /\ ops[o].sent = <<>>) =>
          /\ ops[o].token = ops[o].start.accessToken
          /\ Fields = [ops[o].start EXCEPT !.userDataPromise = o]
    /\ \A o \in Live : (ops[o].sent # <<>> /\ ops[o].sent[1].kind = "profile") =>
          /\ ops[o].sent = <<ProfileReq(ops[o].start.accessToken)>>
          /\ ops[o].token = ops[o].start.accessToken

\* an operation started without forceRefresh on a token that is not expired,
\* with a refresh token and no profile held, has issued the profile request as
\* its only request
CachedTokenFetchesProfileOnlyWitness ==
    /\ last.step = "fetchUserData"
    /\ ~ops[last.op].forceRefresh
    /\ ops[last.op].start.userData = NoUserData
    /\ ops[last.op].start.accessToken # Null
    /\ ops[last.op].start.refreshToken # Null
    /\ ops[last.op].start.tokenExpirationTime # NullTime
    /\ now < ops[last.op].start.tokenExpirationTime - HourMs
    /\ ops[last.op].sent = <<ProfileReq(ops[last.op].start.accessToken)>>

\* the step just taken handled a 2xx response with a token response of the
\* schema to a silent-cookie or refresh request
ExchangeSucceeded ==
    /\ last.step = "response"
    /\ last.req.kind \in {"silent", "refresh"}
    /\ ValidTokenResponse(last.response)

\* the requests a call getUserData() made in this state, the guard being
\* clear, issues before it suspends
NextCallRequests ==
    IF ServedFromCache(FALSE) THEN <<>> ELSE getAccessToken(NewOp(FALSE), FALSE).sent

\* C22 as stated: after a silent-cookie or refresh-token exchange succeeds the
\* token held is not expired, whatever expires_in the response carries
ExchangeEndsFresh ==
    ExchangeSucceeded =>
        /\ tokenExpirationTime # NullTime
        /\ now < tokenExpirationTime - HourMs

\* C22, amended: after a silent-cookie or refresh-token exchange succeeds the
\* token of the response is held with the expiration now + expires_in * 1000;
\* with expires_in above 3600 it is not expired and a call getUserData() made
\* at once issues no token request, and with expires_in below 3600 it is
\* expired at once and such a call issues the refresh request with the refresh
\* token of the response
ExchangeEndsFreshWhenLongLived ==
    ExchangeSucceeded =>
        LET data == last.response.body.value
        IN  /\ accessToken = data.access_token
            /\ tokenExpirationTime = now + data.expires_in * 1000
            /\ data.expires_in > 3600 =>
                  /\ now < tokenExpirationTime - HourMs
                  /\ NextCallRequests = <<>>
            /\ data.expires_in < 3600 =>
                  /\ now > tokenExpirationTime - HourMs
                  /\ NextCallRequests = <<RefreshReq(data.refresh_token)>>

\* a refresh exchange has succeeded with a response whose expires_in is 0
ExchangeEndsFreshWhenLongLivedWitness ==
    /\ ExchangeSucceeded
    /\ last.req.kind = "refresh"
    /\ last.response.body.value.expires_in = 0
    /\ tokenExpirationTime = now

\* C23: a user-data operation issues at most one token request, silent or
\* refresh, and at most one profile request, the profile request last; the
\* only request it may have outstanding is the last one it issued, while it
\* awaits the token or the profile; an operation that has failed is settled
\* with no request outstanding, the failed request being the last it issued;
\* a call of the code or refresh exchange has at most its one request
NoRetries ==
    /\ \A o \in Live :
          LET sent == ops[o].sent
          IN  /\ Len(sent) <= 2
              /\ Cardinality({i \in 1..Len(sent) : sent[i].kind \in {"silent", "refresh"}}) <= 1
              /\ Cardinality({i \in 1..Len(sent) : sent[i].kind = "profile"}) <= 1
              /\ \A i \in 1..Len(sent) : sent[i].kind \in {"silent", "refresh", "profile"}
              /\ (Len(sent) = 2 => sent[2].kind = "profile")
              /\ IF ops[o].state \in {"token", "profile"}
                 THEN sent # <<>> /\ ops[o].req = sent[Len(sent)]
                 ELSE ops[o].req = NoReq
              /\ (ops[o].state = "token" => Len(sent) = 1)
    /\ OpFailed =>
          /\ ops[last.op].state = "settled"
          /\ ops[last.op].req = NoReq
          /\ ops[last.op].sent[Len(ops[last.op].sent)] = last.req
    /\ \A i \in TokenCallIds :
          tokenCalls[i].req # NoReq => tokenCalls[i].req.kind = tokenCalls[i].kind

\* the refresh request of an operation has failed, and the operation has
\* issued no other request
NoRetriesWitness ==
    /\ OpFailed
    /\ last.req.kind = "refresh"
    /\ ops[last.op].sent = <<last.req>>
    /\ ops[last.op].req = NoReq

\* the calls in flight that have called getCodeVerifier
VerifierCalls == {i \in TokenCallIds : tokenCalls[i].kind \in {"code", "login"}}

\* every call that has called getCodeVerifier holds the item of the store and
\* has used it for nothing while it awaits getCodeVerifier, a call of
\* getCodeVerifier creates a verifier only when the store is empty and stores
\* it at once, and the code_verifier of a code request is the verifier of the
\* code_challenge of a login URL
VerifierShared ==
    /\ \A i \in VerifierCalls :
          /\ localStorage # Null
          /\ tokenCalls[i].verifier = localStorage
          /\ (tokenCalls[i].state \in {"verifier", "login"} => tokenCalls[i].req = NoReq)
          /\ (tokenCalls[i].req # NoReq => tokenCalls[i].req.code_verifier = localStorage)
    /\ last.step = "getCodeVerifier" =>
          /\ last.created <=> last.stored = Null
          /\ (~last.created => last.verifier = last.stored)
          /\ localStorage = last.verifier
          /\ \E i \in VerifierCalls :
                /\ tokenCalls[i].state \in {"verifier", "login"}
                /\ tokenCalls[i].verifier = last.verifier
    /\ last.step = "getOAuthLoginUrl" =>
          /\ last.result.searchParams.code_challenge = ExpectedChallenge(localStorage)
          /\ \A i \in VerifierCalls : tokenCalls[i].req # NoReq =>
                last.result.searchParams.code_challenge =
                    ExpectedChallenge(tokenCalls[i].req.code_verifier)

TokenStateBefore ==
    <<last.before.accessToken, last.before.refreshToken, last.before.tokenExpirationTime>>

\* C25: a step changes accessToken, refreshToken or tokenExpirationTime only
\* when it handles a 2xx response with a body of the schema to a silent, code
\* or refresh request; the profile fetch and its response, good or bad, the
\* cached return of getUserData, getOAuthLoginUrl and getOAuthLogoutUrl leave
\* the three as they were
TokenStateFrame ==
    /\ tokenState # TokenStateBefore =>
          /\ last.step = "response"
          /\ last.req.kind \in {"silent", "code", "refresh"}
          /\ ValidTokenResponse(last.response)
          /\ accessToken = last.response.body.value.access_token
    /\ last.step \in {"fetchUserData", "getOAuthLoginUrl", "getOAuthLogoutUrl",
                      "getCodeVerifier"} => tokenState = TokenStateBefore
    /\ OpResponse("profile") => tokenState = TokenStateBefore
    /\ (last.step = "getUserData" /\ last.op = 0) => tokenState = TokenStateBefore

\* the response to a profile request has replaced the profile held while a
\* token state was held
TokenStateFrameWitness ==
    /\ OpResponse("profile")
    /\ ops[last.op].outcome.status = "fulfilled"
    /\ userData # last.before.userData
    /\ accessToken # Null
    /\ accessToken # userData.accessToken

\* the number of requests of a kind awaiting their response
RequestsOutstanding(kind) ==
    Cardinality({o \in Live : ops[o].req.kind = kind})
        + Cardinality({i \in TokenCallIds : tokenCalls[i].req.kind = kind})

\* C26 as stated: no two requests of the same kind are outstanding at once
NoDuplicateRequests ==
    \A kind \in {"silent", "code", "refresh", "profile"} : RequestsOutstanding(kind) <= 1

\* C26, amended: the callers of getUserData share one operation, so that at
\* most one request issued by getUserData is outstanding, and with it at most
\* one silent-cookie request and one profile request; the code exchange and
\* the refresh exchange called directly issue one request per call
GuardedRequestsOnly ==
    /\ RequestsOutstanding("silent") <= 1
    /\ RequestsOutstanding("profile") <= 1
    /\ Cardinality({o \in Live : ops[o].req # NoReq}) <= 1
    /\ \A i \in TokenCallIds :
          /\ tokenCalls[i].kind = "refresh" => tokenCalls[i].req.kind = "refresh"
          /\ (tokenCalls[i].kind = "code" /\ tokenCalls[i].state = "fetching") =>
                tokenCalls[i].req.kind = "code"

\* a refresh request of getUserData and one of a direct call of the refresh
\* exchange are outstanding at once
GuardedRequestsOnlyWitness ==
    /\ \E o \in Live : ops[o].req.kind = "refresh"
    /\ \E i \in TokenCallIds : tokenCalls[i].req.kind = "refresh"
    /\ RequestsOutstanding("refresh") = 2

\* C27: the guard is set if and only if exactly one user-data operation has
\* not settled, and then it holds that operation; a step clears the guard only
\* by settling the operation the guard held, every operation that settles
\* clears the guard it held itself, and the guard never passes from one
\* operation to another without being cleared
GuardIffOneUnsettled ==
    /\ Cardinality(PendingOps) <= 1
    /\ userDataPromise # NoPromise <=> Cardinality(PendingOps) = 1
    /\ userDataPromise # NoPromise => PendingOps = {userDataPromise}
    /\ (last.before.userDataPromise # NoPromise /\ userDataPromise = NoPromise) =>
          /\ last.step = "response"
          /\ last.owner = "getUserData"
          /\ last.op = last.before.userDataPromise
          /\ ops[last.op].state = "settled"
    /\ (last.step = "response" /\ last.owner = "getUserData"
            /\ ops[last.op].state = "settled") =>
          /\ last.before.userDataPromise = last.op
          /\ userDataPromise = NoPromise
    /\ (last.before.userDataPromise # NoPromise /\ userDataPromise # NoPromise) =>
          userDataPromise = last.before.userDataPromise
    /\ (last.before.userDataPromise = NoPromise /\ userDataPromise # NoPromise) =>
          /\ StartedOperation
          /\ userDataPromise = last.op

\* an operation that two callers await has settled with a profile and cleared
\* the guard it held
GuardIffOneUnsettledWitness ==
    /\ OpResponse("profile")
    /\ ops[last.op].outcome.status = "fulfilled"
    /\ ops[last.op].waiting = 2
    /\ last.before.userDataPromise = last.op
    /\ userDataPromise = NoPromise

\* no user-data operation is live and no token call is in flight
Quiescent == Live = {} /\ tokenCalls = <<>>

\* C28 as stated: in every quiescent state in which a profile is held its
\* accessToken is the accessToken of the instance, and a profile getUserData
\* returns from the cache carries the accessToken of the instance
ProfileTokenCurrentWhenQuiescent ==
    /\ (Quiescent /\ userData # NoUserData) => userData.accessToken = accessToken
    /\ (last.step = "getUserData" /\ last.op = 0) =>
          last.result.profile.accessToken = accessToken

\* C29: a call of getUserData made while no access token is held is not served
\* from the cache and awaits an operation whose first request is the
\* silent-cookie request, whatever forceRefresh is and whether or not a refresh
\* token is held; an operation started with no access token held never issues
\* a refresh request
AccessTokenDecidesFirst ==
    /\ (last.step = "getUserData" /\ Falsy(last.before.accessToken)) =>
          /\ last.op # 0
          /\ ops[last.op].sent # <<>>
          /\ ops[last.op].sent[1] = SilentReq
    /\ \A o \in Live :
          Falsy(ops[o].start.accessToken) =>
              /\ ops[o].sent # <<>>
              /\ ops[o].sent[1] = SilentReq
              /\ \A k \in 1..Len(ops[o].sent) : ops[o].sent[k].kind # "refresh"

\* getUserData({forceRefresh: true}) on an instance restored with a refresh
\* token and no profile started an operation, which issued the silent-cookie
\* request
AccessTokenDecidesFirstWitness ==
    /\ StartedOperation
    /\ last.forceRefresh
    /\ last.before.accessToken = Null
    /\ last.before.refreshToken = "r0"
    /\ ops[last.op].req = SilentReq

\* the token state a response with this body, processed at time t, leaves
TokenStateOf(data, t) ==
    <<data.access_token, data.refresh_token, t + data.expires_in * 1000>>

\* the times at which a response can have been processed
ProcessingTimes == {t \in {(2 + k) * HourMs : k \in 0..MaxTicks} : t <= now}

\* a token of some provider response is held
ExchangedTokenHeld ==
    \E data \in TokenResponses :
        accessToken = data.access_token \/ refreshToken = data.refresh_token

\* C30: when the instance holds a token of a provider response, accessToken,
\* refreshToken and tokenExpirationTime are those of one response processed at
\* one time; the step that handles a 2xx response of the schema to a silent,
\* code or refresh request leaves exactly that response's three values, and
\* every other step leaves the three as they were
TokenStateFromOneResponse ==
    /\ ExchangedTokenHeld =>
          \E data \in TokenResponses, t \in ProcessingTimes :
              tokenState = TokenStateOf(data, t)
    /\ IF /\ last.step = "response"
          /\ last.req.kind \in {"silent", "code", "refresh"}
          /\ ValidTokenResponse(last.response)
       THEN tokenState = TokenStateOf(last.response.body.value, last.now)
       ELSE tokenState = TokenStateBefore

\* a refresh call was answered while an operation that had exchanged a token
\* was still running, and replaced all three values that exchange had left
TokenStateFromOneResponseWitness ==
    /\ last.step = "response"
    /\ last.owner = "refresh"
    /\ ValidTokenResponse(last.response)
    /\ last.before.accessToken = "a1"
    /\ last.before.refreshToken = "r1"
    /\ tokenState = TokenStateOf(last.response.body.value, last.now)
    /\ accessToken = "a2"
    /\ \E o \in OpIds : ops[o].state \in {"resolved", "profile"} /\ ops[o].token = "a1"

\* C31: when every issued request is answered, every state in which the guard
\* is set or a user-data operation is live is followed by a state in which
\* the guard is clear and no operation is live; an operation stops being live
\* only once it has settled and the last caller awaiting it has resumed with
\* its settlement, so every call settles and no caller waits forever
EveryCallSettles ==
    (userDataPromise # NoPromise \/ Live # {})
        ~> (userDataPromise = NoPromise /\ Live = {})

\* the last of several callers of an operation has resumed with the profile
\* the caller before it got; the operation is dropped and the guard is clear
EveryCallSettlesWitness ==
    /\ last.step = "resume"
    /\ last.result.status = "fulfilled"
    /\ last.previous = last.result
    /\ ops[last.op].state = "free"
    /\ userDataPromise = NoPromise

====
